---- MODULE Spec2Model ----
(***************************************************************************)
(* Model of src/nngt/generation/func_connect.cpp: the OpenMP edge          *)
(* generators of NNGT.                                                     *)
(*                                                                         *)
(*   Spec     the distance-rule generator _cdistance_rule                  *)
(*   SpecDeg  the degree-model generator _gen_edges/_gen_edge_complement   *)
(*                                                                         *)
(* An edge buffer (two rows of equal length in the code) is a sequence of  *)
(* pairs <<source, target>>; the argument existing_edges keeps its two     *)
(* rows, because the code asks for the size of both the outer and the      *)
(* inner vectors.  Indices are 0-based as in the code; a TLA+ sequence s   *)
(* is read at s[i + 1].  Random draws (the mt19937 streams and the kernel  *)
(* gate) are nondeterministic choices.                                     *)
(***************************************************************************)
EXTENDS Integers, Sequences, FiniteSets, TLC

VARIABLES
    \* arguments of the call
    source_nodes, target_nodes, existing_edges, num_edges, multigraph, num_omp,
    \* state of the call and of the team
    call, pc, single_taken, critical_owner,
    \* shared locals of _cdistance_rule and the output array; ia_edges maps
    \* the positions written so far to their pair, writers logs who wrote each
    current_enum, ecount_fill, ia_edges, writers,
    \* thread-private locals of the parallel region
    i_loop, j_loop, local_tests, tgt, rnd, cond_read,
    elocal_tmp, local_edges, hash_map, num_elocal, fill_i,
    \* arguments of _gen_edges and the build (NDEBUG set or not)
    first_nodes, second_nodes, degrees, idx, ndebug,
    \* thread-private locals of _gen_edges and _gen_edge_complement
    node, result, ecurrent, target_degree, j_cplt, j_fill

params == <<source_nodes, target_nodes, existing_edges, num_edges, multigraph, num_omp>>
team   == <<single_taken, critical_owner>>
output == <<ecount_fill, ia_edges, writers>>
trial  == <<i_loop, j_loop, local_tests, tgt, rnd>>
bufs   == <<elocal_tmp, local_edges, hash_map, num_elocal>>


\* the state of _gen_edges that _cdistance_rule does not have
deg_args  == <<first_nodes, second_nodes, degrees, idx, ndebug>>
deg_local == <<node, result, ecurrent, target_degree, j_cplt, j_fill>>
deg_state == <<deg_args, deg_local>>

\* the state of _cdistance_rule that _gen_edges does not have
dist_state == <<source_nodes, target_nodes, num_edges, team, current_enum, ecount_fill,
                trial, cond_read, elocal_tmp, local_edges, num_elocal, fill_i>>

vars == <<params, call, pc, team, current_enum, output, trial, cond_read, bufs, fill_i,
          deg_state>>

----------------------------------------------------------------------------
(* Bounds of the model *)

\* requested new edges: num_edges \in 0..MaxNewEdges
MaxNewEdges == 2
\* pre-existing edges: at most MaxExisting
MaxExisting == 1
\* the staging buffer elocal_tmp accepts at most MaxTmp entries per worker
MaxTmp == 2
\* team sizes 1..MaxOmp
MaxOmp == 2

\* what a read outside a vector can return: any id, valid or not
GarbageIds == {0, 3}
\* what uniform_int_distribution(0, nln - 1) can return when nln = 0
GarbageIdx == 0 .. 1

NoWorker == -1
\* the loop condition has not been evaluated yet
NotRead == -1
SingleWriter == -1

----------------------------------------------------------------------------
(* Helpers *)

Max(a, b) == IF a >= b THEN a ELSE b

RECURSIVE SeqsUpTo(_, _)
SeqsUpTo(S, n) ==
    IF n = 0 THEN {<<>>}
    ELSE LET shorter == SeqsUpTo(S, n - 1)
         IN  shorter \cup {Append(s, x) : s \in shorter, x \in S}

RECURSIVE SumLen(_, _)
SumLen(lists, n) == IF n = 0 THEN 0 ELSE Len(lists[n]) + SumLen(lists, n - 1)

Workers == 0 .. num_omp - 1

\* omp barrier: the whole team has arrived
AllAt(label) == \A w \in Workers : pc[w] = label

----------------------------------------------------------------------------
(* _cdistance_rule: values computed before the parallel region *)

initial_enum == IF existing_edges = <<>> THEN 0 ELSE Len(existing_edges[1])

target_enum == initial_enum + num_edges

tot_neighbours == SumLen(target_nodes, Len(target_nodes))

\* the pre-existing edge at index i (0-based)
ExistingEdge(i) == <<existing_edges[1][i + 1], existing_edges[2][i + 1]>>

\* line 243 with the comparison off by one
NotEnoughNeighboursOffByOne(tot, target) == tot + 1 < target

\* line 243
NotEnoughNeighbours(tot, target) == tot < target

\* schedule(static), no chunk size: one contiguous chunk per thread,
\* the first n % W threads get one iteration more
ChunkStart(n, W, w) ==
    IF w < (n % W) THEN ((n \div W) + 1) * w ELSE ((n \div W) * w) + (n % W)

ChunkEnd(n, W, w) ==
    ChunkStart(n, W, w) + (IF w < (n % W) THEN (n \div W) + 1 ELSE n \div W)

\* lines 303-305: size_t(size * (target_enum - current_enum) * norm), then
\* max(., 1); with norm = 1. / tot the double product truncates to the
\* integer quotient for the values the model reaches
LocalTests(size, missing, tot) == Max((size * missing) \div tot, 1)

\* line 359 looping until the counts are equal
LoopCondNotEqual(cur, target) == cur # target

\* line 359 stopping one edge short
LoopCondShort(cur, target) == cur + 1 < target

\* line 359
LoopCond(cur, target) == cur < target

\* line 380 without the test of the cursor
FillGuardNoCap(i, n, cursor, target) == i < n

\* line 380
FillGuard(i, n, cursor, target) == i < n /\ cursor < target

\* line 375 without mutual exclusion
CriticalAlwaysFree(owner) == TRUE

\* line 375, omp critical: a thread enters only when no thread is inside
CriticalFree(owner) == owner = NoWorker

----------------------------------------------------------------------------
(* _unique_2d *)

RECURSIVE unique_2d_loop(_, _, _, _)
unique_2d_loop(a, hm, total_unique, i) ==
    IF i >= Len(a)
    THEN [a |-> a, hash_map |-> hm, total_unique |-> total_unique]
    ELSE IF a[i + 1] \notin hm
         THEN unique_2d_loop([a EXCEPT ![total_unique + 1] = a[i + 1]],
                             hm \cup {a[i + 1]}, total_unique + 1, i + 1)
         ELSE unique_2d_loop(a, hm, total_unique, i + 1)

unique_2d(a, hm) == unique_2d_loop(a, hm, Cardinality(hm), Cardinality(hm))

----------------------------------------------------------------------------
(* Inputs of _cdistance_rule *)

\* two sources; with one thread it owns both, with two each thread owns one
SourceLists == {<<0, 1>>}

\* candidate lists of the source at index i: empty, of one id, holding the
\* source itself (alone or not), holding the target of a pre-existing edge;
\* the second list is never empty, so tot_neighbours > 0 and norm is finite
CandListsOf(i) ==
    IF i = 1 THEN {<<>>, <<1>>, <<0, 1>>, <<1, 2>>}
    ELSE {<<0>>, <<1>>, <<0, 2>>}

EdgePool == {<<0, 1>>}

\* no rows at all, or the two rows of up to MaxExisting edges
ExistingChoices ==
    {<<>>} \cup
    {<<[k \in 1 .. Len(es) |-> es[k][1]], [k \in 1 .. Len(es) |-> es[k][2]]>> :
        es \in SeqsUpTo(EdgePool, MaxExisting)}

\* _gen_edges is not running
DegIdle ==
    /\ first_nodes = <<>>
    /\ second_nodes = <<>>
    /\ degrees = <<>>
    /\ idx = 0
    /\ ndebug = FALSE
    /\ node = [w \in Workers |-> 0]
    /\ result = [w \in Workers |-> <<>>]
    /\ ecurrent = [w \in Workers |-> 0]
    /\ target_degree = [w \in Workers |-> 0]
    /\ j_cplt = [w \in Workers |-> 0]
    /\ j_fill = [w \in Workers |-> 0]

Init ==
    /\ source_nodes \in SourceLists
    /\ target_nodes \in {<<a, b>> : a \in CandListsOf(1), b \in CandListsOf(2)}
    /\ existing_edges \in ExistingChoices
    /\ num_edges \in 0 .. MaxNewEdges
    /\ multigraph \in BOOLEAN
    /\ num_omp \in 1 .. MaxOmp
    /\ call = "entry"
    /\ pc = [w \in Workers |-> "idle"]
    /\ single_taken = FALSE
    /\ critical_owner = NoWorker
    /\ current_enum = initial_enum
    /\ ecount_fill = 0
    /\ ia_edges = <<>>
    /\ writers = <<>>
    /\ i_loop = [w \in Workers |-> 0]
    /\ j_loop = [w \in Workers |-> 0]
    /\ local_tests = [w \in Workers |-> 0]
    /\ tgt = [w \in Workers |-> 0]
    /\ rnd = [w \in Workers |-> 0]
    /\ cond_read = [w \in Workers |-> NotRead]
    /\ elocal_tmp = [w \in Workers |-> <<>>]
    /\ local_edges = [w \in Workers |-> <<>>]
    /\ hash_map = [w \in Workers |-> {}]
    /\ num_elocal = [w \in Workers |-> 0]
    /\ fill_i = [w \in Workers |-> 0]
    /\ DegIdle

----------------------------------------------------------------------------
(* _cdistance_rule: before the parallel region *)

\* lines 243-249: throw std::invalid_argument
Throw ==
    /\ call = "entry"
    /\ NotEnoughNeighbours(tot_neighbours, target_enum)
    /\ call' = "thrown"
    /\ UNCHANGED <<deg_state, params, pc, team, current_enum, output, trial, cond_read, bufs, fill_i>>

\* line 252: the team starts, every thread enters the do-while body
EnterParallel ==
    /\ call = "entry"
    /\ ~NotEnoughNeighbours(tot_neighbours, target_enum)
    /\ call' = "parallel"
    /\ pc' = [w \in Workers |-> "single_reset"]
    /\ UNCHANGED <<deg_state, params, team, current_enum, output, trial, cond_read, bufs, fill_i>>

----------------------------------------------------------------------------
(* _cdistance_rule: one round of the do-while loop *)

src(w) == source_nodes[i_loop[w] + 1]
local_tgts(w) == target_nodes[i_loop[w] + 1]
nln(w) == Len(local_tgts(w))

\* line 288: omp single, the first thread to arrive takes the block
SingleReset(w) ==
    /\ call = "parallel"
    /\ pc[w] = "single_reset"
    /\ IF single_taken
       THEN /\ pc' = [pc EXCEPT ![w] = "bar_reset"]
            /\ UNCHANGED single_taken
       ELSE /\ pc' = [pc EXCEPT ![w] = "reset_body"]
            /\ single_taken' = TRUE
    /\ UNCHANGED <<deg_state, params, call, critical_owner, current_enum, output, trial, cond_read, bufs, fill_i>>

\* lines 288-293 with the assignment of line 291 left out
ResetBodyNoReset(w) ==
    /\ call = "parallel"
    /\ pc[w] = "reset_body"
    /\ pc' = [pc EXCEPT ![w] = "bar_reset"]
    /\ UNCHANGED <<deg_state, params, call, team, current_enum, output, trial, cond_read, bufs, fill_i>>

\* line 291: current_enum = initial_enum
ResetBody(w) ==
    /\ call = "parallel"
    /\ pc[w] = "reset_body"
    /\ current_enum' = initial_enum
    /\ pc' = [pc EXCEPT ![w] = "bar_reset"]
    /\ UNCHANGED <<deg_state, params, call, team, output, trial, cond_read, bufs, fill_i>>

\* lines 293-295: the barrier ending the single block and the explicit barrier;
\* line 301: every thread takes its static chunk of the iterations
BarrierReset ==
    /\ call = "parallel"
    /\ AllAt("bar_reset")
    /\ pc' = [w \in Workers |-> "for_next"]
    /\ single_taken' = FALSE
    /\ i_loop' = [w \in Workers |-> ChunkStart(Len(target_nodes), num_omp, w)]
    /\ UNCHANGED <<deg_state, params, call, critical_owner, current_enum, output,
                   j_loop, local_tests, tgt, rnd, cond_read, bufs, fill_i>>

\* lines 301-316: next iteration of the omp for, or its end
ForNext(w) ==
    /\ call = "parallel"
    /\ pc[w] = "for_next"
    /\ IF i_loop[w] < ChunkEnd(Len(target_nodes), num_omp, w)
       THEN /\ local_tests' = [local_tests EXCEPT ![w] =
                   LocalTests(nln(w), target_enum - current_enum, tot_neighbours)]
            /\ j_loop' = [j_loop EXCEPT ![w] = 0]
            /\ tgt' = [tgt EXCEPT ![w] = src(w)]
            /\ pc' = [pc EXCEPT ![w] = "draw"]
       ELSE /\ pc' = [pc EXCEPT ![w] = "bar_for"]
            /\ UNCHANGED <<local_tests, j_loop, tgt>>
    /\ UNCHANGED <<deg_state, params, call, team, current_enum, output, i_loop, rnd, cond_read, bufs, fill_i>>

\* lines 317-321: one pass of while (tgt == src)
Draw(w) ==
    /\ call = "parallel"
    /\ pc[w] = "draw"
    /\ nln(w) > 0
    /\ \E r \in 0 .. nln(w) - 1 :
          /\ rnd' = [rnd EXCEPT ![w] = r]
          /\ tgt' = [tgt EXCEPT ![w] = local_tgts(w)[r + 1]]
          /\ pc' = [pc EXCEPT ![w] =
                       IF local_tgts(w)[r + 1] = src(w) THEN "draw" ELSE "gate"]
    /\ UNCHANGED <<deg_state, params, call, team, current_enum, output, i_loop, j_loop,
                   local_tests, cond_read, bufs, fill_i>>

\* lines 312, 319-320 with nln = 0: the distribution ranges over all of
\* size_t and local_tgts[rnd] reads outside the empty vector
DrawOutOfBounds(w) ==
    /\ call = "parallel"
    /\ pc[w] = "draw"
    /\ nln(w) = 0
    /\ \/ \E r \in GarbageIdx, g \in GarbageIds :
             /\ rnd' = [rnd EXCEPT ![w] = r]
             /\ tgt' = [tgt EXCEPT ![w] = g]
             /\ pc' = [pc EXCEPT ![w] = IF g = src(w) THEN "draw" ELSE "gate"]
             /\ UNCHANGED call
       \/ /\ call' = "ub"
          /\ UNCHANGED <<rnd, tgt, pc>>
    /\ UNCHANGED <<deg_state, params, team, current_enum, output, i_loop, j_loop,
                   local_tests, cond_read, bufs, fill_i>>

\* lines 314, 316: j++, then the next trial or the next iteration; rnd and
\* tgt are dead once the trial is over (both are assigned before their next
\* use), the model clears them
EndTrial(w) ==
    /\ j_loop' = [j_loop EXCEPT ![w] = @ + 1]
    /\ rnd' = [rnd EXCEPT ![w] = 0]
    /\ IF j_loop[w] + 1 < local_tests[w]
       THEN /\ tgt' = [tgt EXCEPT ![w] = src(w)]
            /\ pc' = [pc EXCEPT ![w] = "draw"]
            /\ UNCHANGED i_loop
       ELSE /\ tgt' = [tgt EXCEPT ![w] = 0]
            /\ i_loop' = [i_loop EXCEPT ![w] = @ + 1]
            /\ pc' = [pc EXCEPT ![w] = "for_next"]

\* lines 322-329, proba >= rnd_uniform(generator_): the edge is staged
Accept(w) ==
    /\ call = "parallel"
    /\ pc[w] = "gate"
    /\ Len(elocal_tmp[w]) < MaxTmp
    /\ elocal_tmp' = [elocal_tmp EXCEPT ![w] = Append(@, <<src(w), tgt[w]>>)]
    /\ EndTrial(w)
    /\ UNCHANGED <<deg_state, params, call, team, current_enum, output, local_tests,
                   cond_read, local_edges, hash_map, num_elocal, fill_i>>

\* lines 322-325, proba < rnd_uniform(generator_)
Reject(w) ==
    /\ call = "parallel"
    /\ pc[w] = "gate"
    /\ EndTrial(w)
    /\ UNCHANGED <<deg_state, params, call, team, current_enum, output, local_tests,
                   cond_read, bufs, fill_i>>

\* line 331: the barrier ending the omp for
BarrierFor ==
    /\ call = "parallel"
    /\ AllAt("bar_for")
    /\ pc' = [w \in Workers |-> "merge"]
    /\ UNCHANGED <<deg_state, params, call, team, current_enum, output, trial, cond_read, bufs, fill_i>>

\* lines 333-342: local_edges after the insert, the deduplication and the resize
Merged(le, tmp, hm, multi) ==
    LET all == le \o tmp
        u   == unique_2d(all, hm)
    IN  IF multi
        THEN [local_edges |-> all, hash_map |-> hm, num_elocal |-> Len(all)]
        ELSE [local_edges |-> SubSeq(u.a, 1, u.total_unique),
              hash_map |-> u.hash_map, num_elocal |-> u.total_unique]

\* lines 333-348: merge the staged edges, then the atomic addition
Merge(w) ==
    /\ call = "parallel"
    /\ pc[w] = "merge"
    /\ LET m == Merged(local_edges[w], elocal_tmp[w], hash_map[w], multigraph)
       IN  /\ local_edges' = [local_edges EXCEPT ![w] = m.local_edges]
           /\ hash_map' = [hash_map EXCEPT ![w] = m.hash_map]
           /\ num_elocal' = [num_elocal EXCEPT ![w] = m.num_elocal]
           /\ current_enum' = current_enum + m.num_elocal
    /\ pc' = [pc EXCEPT ![w] = "bar_end"]
    /\ UNCHANGED <<deg_state, params, call, team, output, trial, cond_read, elocal_tmp, fill_i>>

\* lines 350-352: barrier, flush, barrier
BarrierEnd ==
    /\ call = "parallel"
    /\ AllAt("bar_end")
    /\ pc' = [w \in Workers |-> "cond"]
    /\ UNCHANGED <<deg_state, params, call, team, current_enum, output, trial, cond_read, bufs, fill_i>>

\* line 359: while (current_enum < target_enum), an unsynchronised read
Cond(w) ==
    /\ call = "parallel"
    /\ pc[w] = "cond"
    /\ cond_read' = [cond_read EXCEPT ![w] = current_enum]
    /\ pc' = [pc EXCEPT ![w] =
                 IF LoopCond(current_enum, target_enum) THEN "single_reset" ELSE "single_fill"]
    /\ UNCHANGED <<deg_state, params, call, team, current_enum, output, trial, bufs, fill_i>>

----------------------------------------------------------------------------
(* _cdistance_rule: filling the edge container *)

\* line 363: omp single
SingleFill(w) ==
    /\ call = "parallel"
    /\ pc[w] = "single_fill"
    /\ IF single_taken
       THEN /\ pc' = [pc EXCEPT ![w] = "bar_fill"]
            /\ UNCHANGED single_taken
       ELSE /\ pc' = [pc EXCEPT ![w] = "fill_body"]
            /\ single_taken' = TRUE
    /\ UNCHANGED <<deg_state, params, call, critical_owner, current_enum, output, trial, cond_read, bufs, fill_i>>

\* the array after a write of edge e at position p by writer who
Written(arr, p, e) == [q \in DOMAIN arr \cup {p} |-> IF q = p THEN e ELSE arr[q]]

Logged(log, p, who) ==
    [q \in DOMAIN log \cup {p} |->
        IF q = p THEN (IF p \in DOMAIN log THEN Append(log[p], who) ELSE <<who>>)
        ELSE log[q]]

\* lines 365-370: the pre-existing edges, then ecount_fill += initial_enum
FillBody(w) ==
    /\ call = "parallel"
    /\ pc[w] = "fill_body"
    /\ ia_edges' = [q \in DOMAIN ia_edges \cup (0 .. initial_enum - 1) |->
                       IF q < initial_enum THEN ExistingEdge(q) ELSE ia_edges[q]]
    /\ writers' = [q \in DOMAIN writers \cup (0 .. initial_enum - 1) |->
                      IF q < initial_enum
                      THEN (IF q \in DOMAIN writers THEN Append(writers[q], SingleWriter)
                            ELSE <<SingleWriter>>)
                      ELSE writers[q]]
    /\ ecount_fill' = ecount_fill + initial_enum
    /\ pc' = [pc EXCEPT ![w] = "bar_fill"]
    /\ UNCHANGED <<deg_state, params, call, team, current_enum, trial, cond_read, bufs, fill_i>>

\* lines 371-373: the barrier ending the single block and the explicit barrier
BarrierFill ==
    /\ call = "parallel"
    /\ AllAt("bar_fill")
    /\ pc' = [w \in Workers |-> "critical_wait"]
    /\ single_taken' = FALSE
    /\ UNCHANGED <<deg_state, params, call, critical_owner, current_enum, output, trial, cond_read, bufs, fill_i>>

\* lines 375-379: omp critical, one thread at a time; size_t i = 0
EnterCritical(w) ==
    /\ call = "parallel"
    /\ pc[w] = "critical_wait"
    /\ CriticalFree(critical_owner)
    /\ critical_owner' = w
    /\ fill_i' = [fill_i EXCEPT ![w] = 0]
    /\ pc' = [pc EXCEPT ![w] = "critical"]
    /\ UNCHANGED <<deg_state, params, call, single_taken, current_enum, output, trial, cond_read, bufs>>

\* lines 380-387: one pass of the copy loop
CriticalWrite(w) ==
    /\ call = "parallel"
    /\ pc[w] = "critical"
    /\ FillGuard(fill_i[w], num_elocal[w], ecount_fill, target_enum)
    /\ ia_edges' = Written(ia_edges, ecount_fill, local_edges[w][fill_i[w] + 1])
    /\ writers' = Logged(writers, ecount_fill, w)
    /\ ecount_fill' = ecount_fill + 1
    /\ fill_i' = [fill_i EXCEPT ![w] = @ + 1]
    /\ UNCHANGED <<deg_state, params, call, pc, team, current_enum, trial, cond_read, bufs>>

\* lines 380, 389: the copy loop ends, the thread leaves the critical section
ExitCritical(w) ==
    /\ call = "parallel"
    /\ pc[w] = "critical"
    /\ ~FillGuard(fill_i[w], num_elocal[w], ecount_fill, target_enum)
    /\ critical_owner' = NoWorker
    /\ pc' = [pc EXCEPT ![w] = "done"]
    /\ UNCHANGED <<deg_state, params, call, single_taken, current_enum, output, trial, cond_read, bufs, fill_i>>

\* lines 390-391: the barrier ending the parallel region, then the return
Return ==
    /\ call = "parallel"
    /\ AllAt("done")
    /\ call' = "returned"
    /\ UNCHANGED <<deg_state, params, pc, team, current_enum, output, trial, cond_read, bufs, fill_i>>

Next ==
    \/ Throw
    \/ EnterParallel
    \/ \E w \in Workers : SingleReset(w)
    \/ \E w \in Workers : ResetBody(w)
    \/ BarrierReset
    \/ \E w \in Workers : ForNext(w)
    \/ \E w \in Workers : Draw(w)
    \/ \E w \in Workers : DrawOutOfBounds(w)
    \/ \E w \in Workers : Accept(w)
    \/ \E w \in Workers : Reject(w)
    \/ BarrierFor
    \/ \E w \in Workers : Merge(w)
    \/ BarrierEnd
    \/ \E w \in Workers : Cond(w)
    \/ \E w \in Workers : SingleFill(w)
    \/ \E w \in Workers : FillBody(w)
    \/ BarrierFill
    \/ \E w \in Workers : EnterCritical(w)
    \/ \E w \in Workers : CriticalWrite(w)
    \/ \E w \in Workers : ExitCritical(w)
    \/ Return

Spec == Init /\ [][Next]_vars

----------------------------------------------------------------------------
(* Properties of _cdistance_rule *)

RECURSIVE SumOver(_, _)
SumOver(f, n) == IF n = 0 THEN 0 ELSE f[n - 1] + SumOver(f, n - 1)

\* the threads that have left the do-while loop
PastLoop(w) ==
    pc[w] \in {"single_fill", "fill_body", "bar_fill", "critical_wait", "critical", "done"}

\* the threads that have evaluated the loop condition of the last round
PastCond(w) == PastLoop(w) \/ pc[w] \in {"single_reset", "reset_body", "bar_reset"}

\* the positions of the output written by thread w
Block(w) == {p \in DOMAIN writers : writers[p][1] = w}

\* C1: the write cursor never exceeds target_enum, no position >= target_enum
\* is written, and when the call returns the cursor equals target_enum and
\* every position 0..target_enum-1 has been written.
C1_ExactFill ==
    /\ ecount_fill <= target_enum
    /\ DOMAIN ia_edges \subseteq 0 .. target_enum - 1
    /\ call = "returned" =>
          /\ ecount_fill = target_enum
          /\ DOMAIN ia_edges = 0 .. target_enum - 1

\* C1 witness: a two-thread call with a pre-existing edge has returned after
\* the threads accumulated more edges than were requested.
C1_Witness ==
    /\ call = "returned"
    /\ num_omp = 2
    /\ initial_enum = 1
    /\ num_edges = 2
    /\ SumOver(num_elocal, num_omp) > num_edges
    /\ ecount_fill = target_enum

\* no candidate list is empty: every draw reads inside its list
NoEmptyList == \A i \in 1 .. Len(target_nodes) : target_nodes[i] # <<>>

\* the pre-existing edges hold no pair twice
ExistingSimple ==
    \A p, q \in 0 .. initial_enum - 1 : p # q => ExistingEdge(p) # ExistingEdge(q)

\* C2: in simple-graph mode the returned output holds no ordered pair twice
\* (pre-existing and generated edges together) and no generated self-loop.
\* Stated for inputs that are themselves well formed: simple pre-existing
\* edges, no empty candidate list.
C2_SimpleGraph ==
    (call = "returned" /\ ~multigraph /\ ExistingSimple /\ NoEmptyList) =>
        /\ \A p, q \in DOMAIN ia_edges : p # q => ia_edges[p] # ia_edges[q]
        /\ \A p \in DOMAIN ia_edges : p >= initial_enum => ia_edges[p][1] # ia_edges[p][2]

\* the output when the threads enter the critical section in thread order
CanonicalOutput ==
    LET existing == [k \in 1 .. initial_enum |-> ExistingEdge(k - 1)]
        RECURSIVE Concat(_)
        Concat(n) == IF n = 0 THEN <<>> ELSE Concat(n - 1) \o local_edges[n - 1]
        all == existing \o Concat(num_omp)
    IN  [p \in 0 .. target_enum - 1 |-> all[p + 1]]

\* C4: the returned output is a function of the inputs and of the threads'
\* accumulated buffers (which the random streams fix): it does not depend on
\* the order in which the threads enter the critical section, so it is the
\* output of the run that enters in thread order.  Stated for inputs without
\* an empty candidate list.
C4_Deterministic ==
    (call = "returned" /\ NoEmptyList) => ia_edges = CanonicalOutput

\* C5: in simple-graph mode, with fewer candidates than requested new edges,
\* no thread is ever started and the output array and the shared counters
\* keep their initial values.
C5_InfeasibleFailsEarly ==
    (~multigraph /\ tot_neighbours < num_edges) =>
        /\ call \in {"entry", "thrown"}
        /\ \A w \in Workers : pc[w] = "idle"
        /\ ia_edges = <<>>
        /\ ecount_fill = 0
        /\ current_enum = initial_enum

\* C5 witness: the call has thrown on such an input.
C5_Witness ==
    /\ call = "thrown"
    /\ ~multigraph
    /\ tot_neighbours < num_edges

\* C6: one writer at a time; every position is written at most once, and all
\* of 0..target_enum-1 once the call returns; positions below initial_enum
\* hold the pre-existing edges in order and are all written before any
\* generated edge; the other positions are written by the threads, each
\* thread's positions being contiguous and holding a prefix of its buffer.
C6_Layout ==
    /\ Cardinality({w \in Workers : pc[w] = "critical"}) <= 1
    /\ (\E w \in Workers : pc[w] = "fill_body") =>
          \A v \in Workers : pc[v] \notin {"critical_wait", "critical", "done"}
    /\ \A p \in DOMAIN writers : Len(writers[p]) = 1
    /\ \A p \in DOMAIN ia_edges :
          IF p < initial_enum
          THEN writers[p] = <<SingleWriter>> /\ ia_edges[p] = ExistingEdge(p)
          ELSE /\ writers[p][1] \in Workers
               /\ 0 .. initial_enum - 1 \subseteq DOMAIN ia_edges
    /\ \A w \in Workers :
          Block(w) # {} =>
             LET first == CHOOSE p \in Block(w) : \A q \in Block(w) : p <= q
             IN  /\ Block(w) = first .. first + Cardinality(Block(w)) - 1
                 /\ Cardinality(Block(w)) <= Len(local_edges[w])
                 /\ \A p \in Block(w) : ia_edges[p] = local_edges[w][p - first + 1]
    /\ call = "returned" => DOMAIN ia_edges = 0 .. target_enum - 1

\* C6 witness: the call has returned with a pre-existing edge followed by a
\* block of each of two threads.
C6_Witness ==
    /\ call = "returned"
    /\ num_omp = 2
    /\ initial_enum = 1
    /\ Block(0) # {}
    /\ Block(1) # {}

\* C7: every index drawn is inside the candidate list, and every staged edge
\* has its target in the candidate list of its source, different from it.
C7_DrawnFromList ==
    \A w \in Workers :
        /\ pc[w] = "gate" => rnd[w] < nln(w)
        /\ \A k \in 1 .. Len(elocal_tmp[w]) :
              LET e == elocal_tmp[w][k]
              IN  /\ e[1] # e[2]
                  /\ \E i \in 1 .. Len(source_nodes) :
                        /\ source_nodes[i] = e[1]
                        /\ \E n \in 1 .. Len(target_nodes[i]) : target_nodes[i][n] = e[2]

\* C8: every thread that has evaluated the loop condition of a round read
\* the value reached after all the atomic additions of that round.
C8_FreshRead ==
    \A w \in Workers :
        (call = "parallel" /\ PastCond(w) /\ cond_read[w] # NotRead) =>
            cond_read[w] = initial_enum + SumOver(num_elocal, num_omp)

\* C9 as stated: in simple-graph mode current_enum never exceeds target_enum
\* and the loop is left with current_enum = target_enum.  Stated for inputs
\* without an empty candidate list that request at least one edge.
C9_NoOvershoot ==
    (~multigraph /\ NoEmptyList /\ num_edges > 0) =>
        /\ current_enum <= target_enum
        /\ \A w \in Workers : PastLoop(w) => current_enum = target_enum

\* C9 amended: in simple-graph mode the loop is left only with
\* current_enum >= target_enum (the threads add the full size of their
\* deduplicated buffers); the excess is cut at the copy, where the write
\* cursor never exceeds target_enum.
C9_LeavesAtOrAboveTarget ==
    ~multigraph =>
        /\ \A w \in Workers : PastLoop(w) => current_enum >= target_enum
        /\ ecount_fill <= target_enum
        /\ call = "returned" => ecount_fill = target_enum

\* C9 witness: a simple-graph call has returned after current_enum went
\* above target_enum.
C9_Witness ==
    /\ ~multigraph
    /\ NoEmptyList
    /\ num_edges > 0
    /\ call = "returned"
    /\ current_enum > target_enum

\* C13: the call throws if and only if simple-graph mode is requested and
\* the candidate lists hold fewer entries than the new edges requested: a
\* call that has thrown is such a call, and a call that has gone past the
\* test is not.
C13_ErrorTrigger ==
    /\ call = "thrown" => (~multigraph /\ tot_neighbours < num_edges)
    /\ call \notin {"entry", "thrown"} => ~(~multigraph /\ tot_neighbours < num_edges)

\* a round has ended and the next one has not reset the counter: every
\* thread is between the last barrier of line 352 and the barrier of line
\* 294, and if one is already there the thread that took the single block of
\* line 288 has not run it yet; or the loop is over
EndOfRound ==
    /\ call = "parallel"
    /\ \A w \in Workers :
          PastLoop(w) \/ pc[w] \in {"cond", "single_reset", "reset_body", "bar_reset"}
    /\ (\E w \in Workers : pc[w] = "bar_reset") => (\E v \in Workers : pc[v] = "reset_body")

\* C14: at the end of every round current_enum is initial_enum plus the
\* sizes of the threads' accumulated buffers; a buffer keeps what it held and
\* its size never decreases, so neither does the end-of-round count.
C14_CountRecomputed ==
    [][/\ EndOfRound' =>
             /\ current_enum' = initial_enum + SumOver(num_elocal', num_omp)
             /\ \A w \in Workers : num_elocal'[w] = Len(local_edges'[w])
       /\ \A w \in Workers :
             /\ num_elocal'[w] >= num_elocal[w]
             /\ Len(local_edges'[w]) >= Len(local_edges[w])
             /\ SubSeq(local_edges'[w], 1, Len(local_edges[w])) = local_edges[w]
    ]_vars

\* C14 witness: two threads are at the end of a round that is not the first
\* (the loop condition has been evaluated before), each with an edge in its
\* buffer.
C14_Witness ==
    /\ call = "parallel"
    /\ num_omp = 2
    /\ AllAt("cond")
    /\ \A w \in Workers : cond_read[w] # NotRead /\ num_elocal[w] > 0
    /\ current_enum = initial_enum + SumOver(num_elocal, num_omp)

\* thread w has merged the staged edges of the round
AfterMerge(w) == call = "parallel" /\ pc[w] \in {"bar_end", "cond"}

\* C18: in multigraph mode, after the merge of any round the accumulated
\* buffer of a thread holds each trial the thread accepted exactly once: its
\* length is the number of trials accepted so far.  elocal_tmp is appended
\* to on every acceptance and never cleared, so its length is that number.
C18_MergedOnce ==
    \A w \in Workers :
        (multigraph /\ AfterMerge(w)) => Len(local_edges[w]) = Len(elocal_tmp[w])

\* the places where a thread waits for the whole team
BarrierLabels == {"bar_reset", "bar_for", "bar_end", "bar_fill", "done"}

\* C19: the threads of the team take the same decision at the loop
\* condition of every round: no thread is past the loop while another has
\* gone on to a further round; and when every thread waits for the team,
\* they all wait at the same barrier, which then opens.
C19_SameDecision ==
    call = "parallel" =>
        /\ \A w, v \in Workers : PastLoop(w) => (PastLoop(v) \/ pc[v] = "cond")
        /\ (\A w \in Workers : pc[w] \in BarrierLabels) =>
              (\E label \in BarrierLabels : AllAt(label))

\* C19 witness: thread 0 has gone on and executed the reset of the next
\* round while thread 1 has not evaluated the loop condition yet, and the
\* value it will read differs from the end-of-round count.
C19_Witness ==
    /\ call = "parallel"
    /\ num_omp = 2
    /\ pc[0] = "bar_reset"
    /\ pc[1] = "cond"
    /\ cond_read[0] # NotRead
    /\ current_enum = initial_enum
    /\ cond_read[0] > current_enum

----------------------------------------------------------------------------
(* _cdistance_rule under fair scheduling and fair sampling *)

\* the steps of thread w
ThreadStep(w) ==
    \/ SingleReset(w) \/ ResetBody(w) \/ ForNext(w)
    \/ Draw(w) \/ DrawOutOfBounds(w) \/ Accept(w) \/ Reject(w)
    \/ Merge(w) \/ Cond(w) \/ SingleFill(w) \/ FillBody(w)
    \/ EnterCritical(w) \/ CriticalWrite(w) \/ ExitCritical(w)

\* the steps of the team and of the caller
TeamStep ==
    \/ Throw \/ EnterParallel \/ BarrierReset \/ BarrierFor \/ BarrierEnd
    \/ BarrierFill \/ Return

\* line 319: the draw of index r
DrawIndex(w, r) == Draw(w) /\ rnd'[w] = r

\* every thread of the team runs; the distribution of line 312 yields every
\* index again and again; the test of line 325 passes again and again
FairSampling ==
    /\ WF_vars(TeamStep)
    /\ \A w \in 0 .. MaxOmp - 1 :
          /\ WF_vars(w \in Workers /\ ThreadStep(w))
          /\ SF_vars(w \in Workers /\ Accept(w))
          /\ \A r \in 0 .. 1 : SF_vars(w \in Workers /\ DrawIndex(w, r))

SpecFair == Init /\ [][Next]_vars /\ FairSampling

\* the test of line 243 lets the call through
Feasible == ~NotEnoughNeighbours(tot_neighbours, target_enum)

\* a thread has staged as many trials as the model follows
StagingFull == \E w \in Workers : Len(elocal_tmp[w]) >= MaxTmp

\* C15: a call that passes the test of line 243 eventually returns; the
\* runs in which a thread stages MaxTmp trials are not followed further.
\* Stated for inputs without an empty candidate list.
C15_Terminates ==
    (call = "entry" /\ Feasible /\ NoEmptyList) ~> (call = "returned" \/ StagingFull)

----------------------------------------------------------------------------
(* _unique_1d *)

RECURSIVE unique_1d_loop(_, _, _, _)
unique_1d_loop(a, hm, total_unique, i) ==
    IF i >= Len(a)
    THEN [a |-> a, hash_map |-> hm, total_unique |-> total_unique]
    ELSE IF a[i + 1] \notin hm
         THEN unique_1d_loop([a EXCEPT ![total_unique + 1] = a[i + 1]],
                             hm \cup {a[i + 1]}, total_unique + 1, i + 1)
         ELSE unique_1d_loop(a, hm, total_unique, i + 1)

\* line 32 with the count starting at 0
unique_1d_from_zero(a, hm) == unique_1d_loop(a, hm, 0, 0)

\* lines 32-47
unique_1d(a, hm) == unique_1d_loop(a, hm, Cardinality(hm), 0)

----------------------------------------------------------------------------
(* _gen_edge_complement *)

MinOf(nodes) == CHOOSE x \in {nodes[k] : k \in 1 .. Len(nodes)} :
                    \A k \in 1 .. Len(nodes) : x <= nodes[k]
MaxOf(nodes) == CHOOSE x \in {nodes[k] : k \in 1 .. Len(nodes)} :
                    \A k \in 1 .. Len(nodes) : x >= nodes[k]

\* lines 119-121: the distribution ranges over [min_idx, max_idx]
UniformRange(nodes) == MinOf(nodes) .. MaxOf(nodes)

\* line 128: existing_edges is a pointer, never null here, and
\* existing_edges[0] is the pointed-to vector of rows: its size is the number
\* of rows
num_old_edges == Len(existing_edges)

\* the number of pre-existing edges (the length of a row)
NumExisting == IF existing_edges = <<>> THEN 0 ELSE Len(existing_edges[1])

\* lines 129-135: the results the scan can leave; index i of a row is read
\* unchecked, and outside the row it yields any value
RECURSIVE ScanFrom(_, _, _)
ScanFrom(i, other_end, res) ==
    IF i >= num_old_edges THEN {res}
    ELSE IF i < NumExisting
         THEN ScanFrom(i + 1, other_end,
                       IF existing_edges[1][i + 1] = other_end
                       THEN Append(res, existing_edges[2][i + 1]) ELSE res)
         ELSE ScanFrom(i + 1, other_end, res) \cup
              UNION {ScanFrom(i + 1, other_end, Append(res, g)) : g \in GarbageIds}

\* line 137: result.resize(ecurrent + degree), the new entries are 0
Resized(res, n) == [k \in 1 .. n |-> IF k <= Len(res) THEN res[k] ELSE 0]

\* line 144: assert(target_degree == degree), compiled out under NDEBUG
AssertHolds(nd, td, degree) == nd \/ td = degree

\* line 146
OuterCond(ec, td) == ec < td

\* line 148
remaining(w) == target_degree[w] - ecurrent[w]

\* line 160 when the flag is not consulted
DeduplicatedAlways(res, hm, td, multi) ==
    LET u == unique_1d(res, hm)
    IN  [result |-> u.a, hash_map |-> u.hash_map, ecurrent |-> u.total_unique]

\* line 160
Deduplicated(res, hm, td, multi) ==
    IF multi
    THEN [result |-> res, hash_map |-> hm, ecurrent |-> td]
    ELSE LET u == unique_1d(res, hm)
         IN  [result |-> u.a, hash_map |-> u.hash_map, ecurrent |-> u.total_unique]

----------------------------------------------------------------------------
(* _gen_edges *)

\* line 179: std::partial_sum
RECURSIVE cum_degrees(_)
cum_degrees(n) == IF n = 0 THEN degrees[1] ELSE cum_degrees(n - 1) + degrees[n + 1]

\* line 194 without the subtraction of the degree
idx_start_no_sub(n) == cum_degrees(n)

\* line 194
idx_start(n) == cum_degrees(n) - degrees[n + 1]

\* lines 197-198: the pair stored in one slot, the node at offset idx
SlotPair(n, partner) == IF idx = 0 THEN <<n, partner>> ELSE <<partner, n>>

\* first_nodes with the offset idx of the node in a slot: ids from 0 written
\* first, other ids written second
RoleChoices == {<<<<0, 1>>, 0>>, <<<<1, 2>>, 1>>}

SecondChoices == {<<0, 1>>, <<0, 2>>, <<0>>}

MaxDegree == 2

\* no rows; the two rows of one, two and three edges
DegExistingChoices ==
    {<<>>, <<<<0>>, <<1>>>>, <<<<0, 1>>, <<1, 0>>>>, <<<<1, 1, 0>>, <<0, 2, 1>>>>}

InitDeg ==
    /\ \E r \in RoleChoices : first_nodes = r[1] /\ idx = r[2]
    /\ second_nodes \in SecondChoices
    /\ degrees \in [1 .. Len(first_nodes) -> 0 .. MaxDegree]
    /\ existing_edges \in DegExistingChoices
    /\ multigraph \in BOOLEAN
    /\ num_omp \in 1 .. MaxOmp
    /\ ndebug \in BOOLEAN
    /\ call = "entry"
    /\ pc = [w \in Workers |-> "idle"]
    /\ ia_edges = <<>>
    /\ writers = <<>>
    /\ hash_map = [w \in Workers |-> {}]
    /\ node = [w \in Workers |-> 0]
    /\ result = [w \in Workers |-> <<>>]
    /\ ecurrent = [w \in Workers |-> 0]
    /\ target_degree = [w \in Workers |-> 0]
    /\ j_cplt = [w \in Workers |-> 0]
    /\ j_fill = [w \in Workers |-> 0]
    \* _cdistance_rule is not running
    /\ source_nodes = <<>>
    /\ target_nodes = <<>>
    /\ num_edges = 0
    /\ single_taken = FALSE
    /\ critical_owner = NoWorker
    /\ current_enum = 0
    /\ ecount_fill = 0
    /\ i_loop = [w \in Workers |-> 0]
    /\ j_loop = [w \in Workers |-> 0]
    /\ local_tests = [w \in Workers |-> 0]
    /\ tgt = [w \in Workers |-> 0]
    /\ rnd = [w \in Workers |-> 0]
    /\ cond_read = [w \in Workers |-> NotRead]
    /\ elocal_tmp = [w \in Workers |-> <<>>]
    /\ local_edges = [w \in Workers |-> <<>>]
    /\ num_elocal = [w \in Workers |-> 0]
    /\ fill_i = [w \in Workers |-> 0]

\* lines 182-187: the team starts, every thread takes its static chunk
DegEnterParallel ==
    /\ call = "entry"
    /\ call' = "parallel"
    /\ pc' = [w \in Workers |-> "node_next"]
    /\ node' = [w \in Workers |-> ChunkStart(Len(first_nodes), num_omp, w)]
    /\ UNCHANGED <<dist_state, deg_args, existing_edges, multigraph, num_omp,
                   ia_edges, writers, hash_map, result, ecurrent, target_degree,
                   j_cplt, j_fill>>

\* lines 187, 190, 119-146: the next node of the chunk; _gen_edge_complement
\* seeds result with the targets of the pre-existing edges it finds
Seed(w) ==
    /\ call = "parallel"
    /\ pc[w] = "node_next"
    /\ node[w] < ChunkEnd(Len(first_nodes), num_omp, w)
    /\ \E res \in ScanFrom(0, node[w], <<>>) :
          LET degree == degrees[node[w] + 1]
              td     == Len(res) + degree
          IN  /\ result' = [result EXCEPT ![w] = Resized(res, td)]
              /\ ecurrent' = [ecurrent EXCEPT ![w] = Len(res)]
              /\ target_degree' = [target_degree EXCEPT ![w] = td]
              /\ hash_map' = [hash_map EXCEPT ![w] = {}]
              /\ j_cplt' = [j_cplt EXCEPT ![w] = 0]
              /\ j_fill' = [j_fill EXCEPT ![w] = 0]
              /\ IF ~AssertHolds(ndebug, td, degree)
                 THEN call' = "aborted" /\ UNCHANGED pc
                 ELSE /\ UNCHANGED call
                      /\ pc' = [pc EXCEPT ![w] =
                                   IF OuterCond(Len(res), td) THEN "sample" ELSE "write"]
    /\ UNCHANGED <<dist_state, deg_args, existing_edges, multigraph, num_omp,
                   ia_edges, writers, node>>

\* lines 129-131: a read outside a row of existing_edges can also fault
SeedFault(w) ==
    /\ call = "parallel"
    /\ pc[w] = "node_next"
    /\ node[w] < ChunkEnd(Len(first_nodes), num_omp, w)
    /\ num_old_edges > NumExisting
    /\ call' = "ub"
    /\ UNCHANGED <<dist_state, deg_state, existing_edges, multigraph, num_omp,
                   pc, ia_edges, writers, hash_map>>

\* lines 150-158: one draw of the inner loop
DrawCplt(w) ==
    /\ call = "parallel"
    /\ pc[w] = "sample"
    /\ \E cplt \in UniformRange(second_nodes) :
          IF cplt # node[w]
          THEN /\ result' = [result EXCEPT ![w][ecurrent[w] + j_cplt[w] + 1] = cplt]
               /\ j_cplt' = [j_cplt EXCEPT ![w] = @ + 1]
               /\ pc' = [pc EXCEPT ![w] =
                            IF j_cplt[w] + 1 < remaining(w) THEN "sample" ELSE "dedup"]
          ELSE UNCHANGED <<result, j_cplt, pc>>
    /\ UNCHANGED <<dist_state, deg_args, existing_edges, multigraph, num_omp, call,
                   ia_edges, writers, hash_map, node, ecurrent, target_degree, j_fill>>

\* lines 160, 146-149: ecurrent is updated, the outer loop goes on or ends
Dedup(w) ==
    /\ call = "parallel"
    /\ pc[w] = "dedup"
    /\ LET d == Deduplicated(result[w], hash_map[w], target_degree[w], multigraph)
       IN  /\ result' = [result EXCEPT ![w] = d.result]
           /\ hash_map' = [hash_map EXCEPT ![w] = d.hash_map]
           /\ ecurrent' = [ecurrent EXCEPT ![w] = d.ecurrent]
           /\ pc' = [pc EXCEPT ![w] =
                        IF OuterCond(d.ecurrent, target_degree[w]) THEN "sample" ELSE "write"]
    /\ j_cplt' = [j_cplt EXCEPT ![w] = 0]
    /\ UNCHANGED <<dist_state, deg_args, existing_edges, multigraph, num_omp, call,
                   ia_edges, writers, node, target_degree, j_fill>>

\* lines 195-199: one pass of the fill loop
WriteSlot(w) ==
    /\ call = "parallel"
    /\ pc[w] = "write"
    /\ j_fill[w] < degrees[node[w] + 1]
    /\ LET slot == idx_start(node[w]) + j_fill[w]
       IN  /\ ia_edges' = Written(ia_edges, slot, SlotPair(node[w], result[w][j_fill[w] + 1]))
           /\ writers' = Logged(writers, slot, w)
    /\ j_fill' = [j_fill EXCEPT ![w] = @ + 1]
    /\ UNCHANGED <<dist_state, deg_args, existing_edges, multigraph, num_omp, call, pc,
                   hash_map, node, result, ecurrent, target_degree, j_cplt>>

\* lines 195, 200, 187: the fill loop ends, res_tmp and the locals of the
\* call of _gen_edge_complement are gone, node++
NodeDone(w) ==
    /\ call = "parallel"
    /\ pc[w] = "write"
    /\ j_fill[w] >= degrees[node[w] + 1]
    /\ node' = [node EXCEPT ![w] = @ + 1]
    /\ result' = [result EXCEPT ![w] = <<>>]
    /\ hash_map' = [hash_map EXCEPT ![w] = {}]
    /\ ecurrent' = [ecurrent EXCEPT ![w] = 0]
    /\ target_degree' = [target_degree EXCEPT ![w] = 0]
    /\ j_cplt' = [j_cplt EXCEPT ![w] = 0]
    /\ j_fill' = [j_fill EXCEPT ![w] = 0]
    /\ pc' = [pc EXCEPT ![w] = "node_next"]
    /\ UNCHANGED <<dist_state, deg_args, existing_edges, multigraph, num_omp, call,
                   ia_edges, writers>>

\* lines 187, 200: the chunk is exhausted, the thread waits at the barrier
\* ending the omp for
ChunkDone(w) ==
    /\ call = "parallel"
    /\ pc[w] = "node_next"
    /\ node[w] >= ChunkEnd(Len(first_nodes), num_omp, w)
    /\ pc' = [pc EXCEPT ![w] = "done"]
    /\ UNCHANGED <<dist_state, deg_state, existing_edges, multigraph, num_omp, call,
                   ia_edges, writers, hash_map>>

\* lines 200-202: the barriers ending the omp for and the parallel region
DegReturn ==
    /\ call = "parallel"
    /\ AllAt("done")
    /\ call' = "returned"
    /\ UNCHANGED <<dist_state, deg_state, existing_edges, multigraph, num_omp, pc,
                   ia_edges, writers, hash_map>>

NextDeg ==
    \/ DegEnterParallel
    \/ \E w \in Workers : Seed(w)
    \/ \E w \in Workers : SeedFault(w)
    \/ \E w \in Workers : DrawCplt(w)
    \/ \E w \in Workers : Dedup(w)
    \/ \E w \in Workers : WriteSlot(w)
    \/ \E w \in Workers : NodeDone(w)
    \/ \E w \in Workers : ChunkDone(w)
    \/ DegReturn

SpecDeg == InitDeg /\ [][NextDeg]_vars

----------------------------------------------------------------------------
(* Properties of _gen_edges *)

Min(a, b) == IF a <= b THEN a ELSE b

\* the number of pre-existing edges leaving node n
PreExisting(n) ==
    Cardinality({k \in 1 .. NumExisting : existing_edges[1][k] = n})

\* every read of the scan is inside the rows
ScanInside == num_old_edges <= NumExisting

\* thread w has written all the slots of its node
NodeWritten(w) ==
    call = "parallel" /\ pc[w] = "write" /\ j_fill[w] = degrees[node[w] + 1]

\* C3: when a node has been written, the partners drawn for it that reached
\* the output, plus its pre-existing outgoing edges, are degrees[node]; in
\* simple-graph mode its partners are pairwise distinct and differ from it.
\* Stated for inputs that can meet it: a node has no more pre-existing edges
\* than its degree, and the scan reads inside the rows.
C3_DegreeExact ==
    \A w \in Workers :
        (NodeWritten(w) /\ ScanInside /\ PreExisting(node[w]) <= degrees[node[w] + 1]) =>
            LET degree == degrees[node[w] + 1]
                seeded == target_degree[w] - degree
                drawn  == degree - Min(seeded, degree)
            IN  /\ drawn + PreExisting(node[w]) = degree
                /\ ~multigraph =>
                      \A a, b \in 1 .. degree :
                          /\ result[w][a] # node[w]
                          /\ a # b => result[w][a] # result[w][b]

\* the slots of node n
Slots(n) == idx_start(n) .. cum_degrees(n) - 1

SumDegrees == cum_degrees(Len(degrees) - 1)

NodeIndices == 0 .. Len(first_nodes) - 1

\* C10: the slot ranges of the nodes are pairwise disjoint and cover
\* 0..sum(degrees)-1; every written slot lies in the range of the node it
\* holds; no slot is written twice, and all are written when the call returns.
C10_DisjointSlots ==
    call # "entry" =>
        /\ \A n, m \in NodeIndices : n # m => Slots(n) \cap Slots(m) = {}
        /\ UNION {Slots(n) : n \in NodeIndices} = 0 .. SumDegrees - 1
        /\ \A p \in DOMAIN ia_edges : p \in Slots(ia_edges[p][idx + 1])
        /\ \A p \in DOMAIN writers : Len(writers[p]) = 1
        /\ call = "returned" => DOMAIN ia_edges = 0 .. SumDegrees - 1

\* C10 witness: a two-thread call has returned, each thread having written
\* the two slots of its node.
C10_Witness ==
    /\ call = "returned"
    /\ num_omp = 2
    /\ Cardinality(Block(0)) = 2
    /\ Cardinality(Block(1)) = 2

\* the call of _gen_edge_complement made by thread w has seeded its result
\* and has not drawn yet
JustSeeded(w) ==
    /\ call = "parallel"
    /\ \/ pc[w] = "sample" /\ j_cplt[w] = 0 /\ hash_map[w] = {}
       \/ pc[w] = "write" /\ degrees[node[w] + 1] = 0

\* the targets of the pre-existing edges i.. whose source is n, in order
RECURSIVE ExpectedSeed(_, _)
ExpectedSeed(n, i) ==
    IF i > NumExisting THEN <<>>
    ELSE (IF existing_edges[1][i] = n THEN <<existing_edges[2][i]>> ELSE <<>>)
         \o ExpectedSeed(n, i + 1)

\* C17: the scan examines the indices 0..E-1 of the E pre-existing edges and
\* no other, and the result starts with the targets of the pre-existing
\* edges that leave the node the call is made for.
C17_SeedsAllExisting ==
    \A w \in Workers :
        JustSeeded(w) =>
            /\ num_old_edges = NumExisting
            /\ SubSeq(result[w], 1, ecurrent[w]) = ExpectedSeed(node[w], 1)

\* the ids a vector of nodes holds
IdsOf(nodes) == {nodes[k] : k \in 1 .. Len(nodes)}

\* C20: in every pair written to the output the endpoint at offset idx is an
\* id of first_nodes and the endpoint at offset 1 - idx is an id of
\* second_nodes.  Stated for calls without pre-existing edges, where every
\* partner written is a drawn one.
C20_EndpointsInRoleSets ==
    existing_edges = <<>> =>
        \A p \in DOMAIN ia_edges :
            /\ ia_edges[p][idx + 1] \in IdsOf(first_nodes)
            /\ ia_edges[p][2 - idx] \in IdsOf(second_nodes)

----------------------------------------------------------------------------
(* _gen_edges under fair scheduling and fair draws *)

\* the steps of thread w
DegThreadStep(w) ==
    \/ Seed(w) \/ SeedFault(w) \/ DrawCplt(w) \/ Dedup(w)
    \/ WriteSlot(w) \/ NodeDone(w) \/ ChunkDone(w)

\* lines 152-156: the draw of the value c, stored in the result
DrawValue(w, c) ==
    /\ DrawCplt(w)
    /\ j_cplt'[w] = j_cplt[w] + 1
    /\ result'[w][ecurrent[w] + j_cplt[w] + 1] = c

\* the ids the model's ranges hold
DrawnIds == 0 .. 2

\* every thread runs, the team starts and ends; the distribution of line 121
\* yields every id of its range again and again
FairDraws ==
    /\ WF_vars(DegEnterParallel \/ DegReturn)
    /\ \A w \in 0 .. MaxOmp - 1 :
          /\ WF_vars(w \in Workers /\ DegThreadStep(w))
          /\ \A c \in DrawnIds : SF_vars(w \in Workers /\ DrawValue(w, c))

SpecDegFair == InitDeg /\ [][NextDeg]_vars /\ FairDraws

\* the ids of [min_idx, max_idx] that differ from the source of thread w
Available(w) == UniformRange(second_nodes) \ {node[w]}

\* the condition C16 gives for the termination of the call made by thread w
TerminationCondition(w) ==
    IF multigraph
    THEN degrees[node[w] + 1] = 0 \/ Available(w) # {}
    ELSE degrees[node[w] + 1] <= Cardinality(Available(w))

\* thread w is inside the outer loop of _gen_edge_complement
InSampler(w) == call = "parallel" /\ pc[w] \in {"sample", "dedup"}

\* C16: a call of _gen_edge_complement whose degree and range meet the
\* condition leaves the loop (unless the process is ended by another thread),
\* and a call that does not meet it never leaves the loop.  Stated for
\* inputs whose scan of the pre-existing edges reads inside the rows.
C16_TerminatesIff ==
    /\ \A w \in 0 .. MaxOmp - 1 :
          (w \in Workers /\ ScanInside /\ InSampler(w) /\ TerminationCondition(w))
              ~> (call \in {"aborted", "ub"} \/ (w \in Workers /\ pc[w] = "write"))
    /\ [][\A w \in Workers :
             (ScanInside /\ InSampler(w) /\ ~TerminationCondition(w)) => pc'[w] # "write"
       ]_vars

----------------------------------------------------------------------------
(* Multigraph mode, in _gen_edges and in _cdistance_rule *)

\* the function that was called: _gen_edges has first_nodes, _cdistance_rule
\* has source_nodes
InGenEdges == first_nodes # <<>>

InitMulti == (Init \/ InitDeg) /\ multigraph = TRUE

NextMulti ==
    \/ ~InGenEdges /\ Next
    \/ InGenEdges /\ NextDeg

SpecMulti == InitMulti /\ [][NextMulti]_vars

\* C11: with multigraph = TRUE no uniqueness index is ever filled; in
\* _gen_edge_complement the step that ends a pass of the outer loop ends the
\* loop, the pass has drawn exactly degree entries and the step leaves them
\* as drawn; in _cdistance_rule the merge appends the staged edges and
\* num_elocal is the length of the accumulated buffer; on return the output
\* holds exactly the edges asked for.
C11_MultigraphSkipsDedup ==
    [][multigraph =>
          /\ \A w \in Workers :
                /\ hash_map'[w] = {}
                /\ (InGenEdges /\ pc[w] = "dedup" /\ pc'[w] # "dedup") =>
                      /\ pc'[w] = "write"
                      /\ j_cplt[w] = degrees[node[w] + 1]
                      /\ result'[w] = result[w]
                /\ (~InGenEdges /\ pc[w] = "merge" /\ pc'[w] = "bar_end") =>
                      /\ local_edges'[w] = local_edges[w] \o elocal_tmp[w]
                      /\ num_elocal'[w] = Len(local_edges'[w])
          /\ (~InGenEdges /\ call' = "returned") =>
                ecount_fill' = target_enum /\ DOMAIN ia_edges' = 0 .. target_enum - 1
          /\ (InGenEdges /\ call' = "returned") =>
                DOMAIN ia_edges' = 0 .. SumDegrees - 1
    ]_vars

\* C11 witness: in multigraph mode _gen_edges has returned an output that
\* holds the same pair in two slots.
C11_Witness ==
    /\ multigraph
    /\ InGenEdges
    /\ call = "returned"
    /\ \E p, q \in DOMAIN ia_edges : p # q /\ ia_edges[p] = ia_edges[q]

----------------------------------------------------------------------------
(* _unique_1d and _unique_2d on their own *)

\* the longest buffer handed to the functions
MaxBuf == 3

UniqueIds == 0 .. 2
UniquePairs == {<<0, 1>>, <<1, 0>>, <<0, 2>>}

\* the buffers whose first n entries are pairwise distinct, n being the size
\* of the index: what both callers pass (lines 142 and 160, 259 and 337-342)
PrefixLengths(a) ==
    {n \in 0 .. Len(a) : \A p, q \in 1 .. n : p # q => a[p] # a[q]}

Keys(a, n) == {a[k] : k \in 1 .. n}

InitUnique ==
    /\ num_omp = 1
    /\ call \in {"unique_1d", "unique_2d"}
    /\ pc = [w \in Workers |-> "idle"]
    /\ \E a \in SeqsUpTo(IF call = "unique_1d" THEN UniqueIds ELSE UniquePairs, MaxBuf) :
          \E n \in PrefixLengths(a) :
              /\ hash_map = [w \in Workers |-> Keys(a, n)]
              /\ result = [w \in Workers |-> IF call = "unique_1d" THEN a ELSE <<>>]
              /\ local_edges = [w \in Workers |-> IF call = "unique_2d" THEN a ELSE <<>>]
              /\ ecurrent = [w \in Workers |-> IF call = "unique_1d" THEN n ELSE 0]
              /\ num_elocal = [w \in Workers |-> IF call = "unique_2d" THEN n ELSE 0]
    \* no generator is running
    /\ first_nodes = <<>>
    /\ second_nodes = <<>>
    /\ degrees = <<>>
    /\ idx = 0
    /\ ndebug = FALSE
    /\ node = [w \in Workers |-> 0]
    /\ target_degree = [w \in Workers |-> 0]
    /\ j_cplt = [w \in Workers |-> 0]
    /\ j_fill = [w \in Workers |-> 0]
    /\ source_nodes = <<>>
    /\ target_nodes = <<>>
    /\ existing_edges = <<>>
    /\ num_edges = 0
    /\ multigraph = FALSE
    /\ single_taken = FALSE
    /\ critical_owner = NoWorker
    /\ current_enum = 0
    /\ ecount_fill = 0
    /\ ia_edges = <<>>
    /\ writers = <<>>
    /\ i_loop = [w \in Workers |-> 0]
    /\ j_loop = [w \in Workers |-> 0]
    /\ local_tests = [w \in Workers |-> 0]
    /\ tgt = [w \in Workers |-> 0]
    /\ rnd = [w \in Workers |-> 0]
    /\ cond_read = [w \in Workers |-> NotRead]
    /\ elocal_tmp = [w \in Workers |-> <<>>]
    /\ fill_i = [w \in Workers |-> 0]

\* the calls made so far: none, one, two
AfterCall(label) == IF label = "idle" THEN "once" ELSE "twice"

\* lines 28-48: a call of _unique_1d(result, hash_map), as on line 160
CallUnique1d(w) ==
    /\ call = "unique_1d"
    /\ pc[w] \in {"idle", "once"}
    /\ LET u == unique_1d(result[w], hash_map[w])
       IN  /\ result' = [result EXCEPT ![w] = u.a]
           /\ hash_map' = [hash_map EXCEPT ![w] = u.hash_map]
           /\ ecurrent' = [ecurrent EXCEPT ![w] = u.total_unique]
    /\ pc' = [pc EXCEPT ![w] = AfterCall(@)]
    /\ UNCHANGED <<dist_state, deg_args, existing_edges, multigraph, num_omp, call,
                   ia_edges, writers, node, target_degree, j_cplt, j_fill>>

\* lines 51-75: a call of _unique_2d(local_edges, hash_map), as on line 339
CallUnique2d(w) ==
    /\ call = "unique_2d"
    /\ pc[w] \in {"idle", "once"}
    /\ LET u == unique_2d(local_edges[w], hash_map[w])
       IN  /\ local_edges' = [local_edges EXCEPT ![w] = u.a]
           /\ hash_map' = [hash_map EXCEPT ![w] = u.hash_map]
           /\ num_elocal' = [num_elocal EXCEPT ![w] = u.total_unique]
    /\ pc' = [pc EXCEPT ![w] = AfterCall(@)]
    /\ UNCHANGED <<deg_state, params, call, team, current_enum, output, trial,
                   cond_read, elocal_tmp, fill_i>>

NextUnique ==
    \/ \E w \in Workers : CallUnique1d(w)
    \/ \E w \in Workers : CallUnique2d(w)

SpecUnique == InitUnique /\ [][NextUnique]_vars

\* the first occurrences of the keys of a, in their order in a
RECURSIVE FirstOccurrences(_, _)
FirstOccurrences(a, i) ==
    IF i > Len(a) THEN <<>>
    ELSE (IF \A j \in 1 .. i - 1 : a[j] # a[i] THEN <<a[i]>> ELSE <<>>)
         \o FirstOccurrences(a, i + 1)

\* what C12 says of one call: buffer a and index size n before, buffer b,
\* index hm and returned length L after
Compacted(a, b, hm, L) ==
    /\ L <= Len(b)
    /\ Len(b) = Len(a)
    /\ \A p, q \in 1 .. L : p # q => b[p] # b[q]
    /\ SubSeq(b, 1, L) = FirstOccurrences(a, 1)
    /\ hm = Keys(b, L)

\* what C12 says of a second call: nothing changes
Idempotent(a, hmA, LA, b, hmB, LB) ==
    /\ LB = LA
    /\ SubSeq(b, 1, LB) = SubSeq(a, 1, LA)
    /\ hmB = hmA

\* C12: a call of _unique_1d or _unique_2d on a buffer whose first
\* hash_map.size() entries are the keys of the index returns a length L such
\* that the first L entries are pairwise distinct, are the first occurrences
\* of the keys of the buffer in their order, and are the keys of the index;
\* a second call returns the same L and changes neither the first L entries
\* nor the index.
C12_Compaction ==
    [][\A w \in Workers :
          /\ (call = "unique_1d" /\ pc[w] = "idle" /\ pc'[w] = "once") =>
                Compacted(result[w], result'[w], hash_map'[w], ecurrent'[w])
          /\ (call = "unique_1d" /\ pc[w] = "once" /\ pc'[w] = "twice") =>
                Idempotent(result[w], hash_map[w], ecurrent[w],
                           result'[w], hash_map'[w], ecurrent'[w])
          /\ (call = "unique_2d" /\ pc[w] = "idle" /\ pc'[w] = "once") =>
                Compacted(local_edges[w], local_edges'[w], hash_map'[w], num_elocal'[w])
          /\ (call = "unique_2d" /\ pc[w] = "once" /\ pc'[w] = "twice") =>
                Idempotent(local_edges[w], hash_map[w], num_elocal[w],
                           local_edges'[w], hash_map'[w], num_elocal'[w])
    ]_vars

\* C12 witness: _unique_1d has been called twice on a buffer of three entries
\* of which two are kept.
C12_Witness ==
    /\ call = "unique_1d"
    /\ pc[0] = "twice"
    /\ Len(result[0]) = 3
    /\ ecurrent[0] = 2

====
